---- MODULE Spec2Model ----
(***************************************************************************)
(* Frequent, closed and maximal itemset mining (Apriori).                  *)
(*                                                                         *)
(*   src/src/apriori.py           count_support, generate_candidates,      *)
(*                                get_frequent_itemsets                    *)
(*   src/src/closed_itemsets.py   find_closed_itemsets                     *)
(*   src/src/maximal_itemsets.py  find_maximal_itemsets                    *)
(*   src/main.py                  the pipeline frequent -> closed, maximal *)
(*                                                                         *)
(* A frozenset is a set, a list is a sequence, a dict is a function (its   *)
(* mapping) together with the sequence of its keys in iteration order      *)
(* where the code iterates it.  min_support is a finite rational           *)
(* <<numerator, denominator>> with a positive denominator.                 *)
(***************************************************************************)
EXTENDS Integers, Sequences, FiniteSets, TLC

VARIABLES
    transactions,        \* List[frozenset]: the input of get_frequent_itemsets
    min_support,         \* the min_support argument (first run)
    pc,                  \* position of the run
    min_support_count,   \* apriori.py:79
    support_counts,      \* apriori.py:88,106: what count_support last returned
    current_frequent,    \* apriori.py:90,108
    frequent_itemsets,   \* apriori.py:81: the accumulating result map
    k,                   \* apriori.py:99,117
    candidates,          \* apriori.py:101
    iter_order,          \* the keys of frequent_itemsets in dict iteration order
    closed_itemsets,     \* what find_closed_itemsets returned
    maximal_itemsets,    \* what find_maximal_itemsets returned
    min_support_2,       \* the min_support argument of a second run
    frequent_itemsets_2  \* the map a second run returned

vars == <<transactions, min_support, pc, min_support_count, support_counts,
          current_frequent, frequent_itemsets, k, candidates, iter_order,
          closed_itemsets, maximal_itemsets, min_support_2, frequent_itemsets_2>>

(***************************************************************************)
(* Bounds and input domains.                                               *)
(***************************************************************************)
MaxTx == 3
MaxKeys == 4

Items == {"a", "b", "c"}
GenItems == {"a", "b", "c", "d", "e"}
Counts == {1, 2}

Itemsets == SUBSET Items
NonEmptyItemsets == Itemsets \ {{}}
TransactionLists == UNION {[1..n -> Itemsets] : n \in 0..MaxTx}

\* -1/2, 0, 1/3, 1/2, 2/3, 1, 3/2: below, inside and above the range (0, 1]
MinSupports == {<<-1, 2>>, <<0, 1>>, <<1, 3>>, <<1, 2>>, <<2, 3>>, <<1, 1>>, <<3, 2>>}

Less(ms1, ms2) == ms1[1] * ms2[2] < ms2[1] * ms1[2]

EmptyMap == [x \in {} |-> 0]
Range(s) == {s[i] : i \in DOMAIN s}

(***************************************************************************)
(* apriori.py                                                              *)
(***************************************************************************)

\* int(x): truncation toward zero of the quotient num / den (den > 0)
TruncInt(num, den) == IF num >= 0 THEN num \div den ELSE -((-num) \div den)

\* apriori.py:78-79
MinSupportCount(txs, ms) == TruncInt(ms[1] * Len(txs), ms[2])

\* apriori.py:24-27: the pass over transactions from index i on, counts so far in sc
RECURSIVE CountFrom(_, _, _, _)
CountFrom(txs, itemsets, i, sc) ==
    IF i > Len(txs) THEN sc
    ELSE CountFrom(txs, itemsets, i + 1,
             [itemset \in itemsets |->
                 IF itemset \subseteq txs[i] THEN sc[itemset] + 1 ELSE sc[itemset]])

\* Mutant: identical transactions are counted once
count_support_distinct(txs, itemsets) ==
    [itemset \in itemsets |-> Cardinality({t \in Range(txs) : itemset \subseteq t})]

count_support(txs, itemsets) ==
    CountFrom(txs, itemsets, 1, [itemset \in itemsets |-> 0])

\* itertools.combinations(union, n), each made a frozenset
Combinations(union, n) == {subset \in SUBSET union : Cardinality(subset) = n}

\* Mutant: the join without the check of the (k-1)-subsets
generate_candidates_no_prune(F, kk) ==
    {union \in {p[1] \cup p[2] : p \in {q \in F \X F : q[1] # q[2]}} :
        Cardinality(union) = kk}

generate_candidates(F, kk) ==
    {union \in {p[1] \cup p[2] : p \in {q \in F \X F : q[1] # q[2]}} :
        /\ Cardinality(union) = kk
        /\ \A subset \in Combinations(union, kk - 1) : subset \in F}

\* apriori.py:83-85
AllItems(txs) == UNION {txs[i] : i \in DOMAIN txs}

\* Mutant: one candidate made of all the items instead of one per item
SingleItemsetsWhole(all_items) == {all_items}

\* Mutant: the empty itemset is a candidate too
SingleItemsetsWithEmpty(all_items) == {{item} : item \in all_items} \cup {{}}

\* apriori.py:87
SingleItemsets(all_items) == {{item} : item \in all_items}

\* Mutant: strict comparison
KeepStrict(sc, T) == {itemset \in DOMAIN sc : sc[itemset] > T}

\* Mutant: inverted comparison
KeepInverted(sc, T) == {itemset \in DOMAIN sc : sc[itemset] <= T}

\* apriori.py:90-94, 108-112
Keep(sc, T) == {itemset \in DOMAIN sc : sc[itemset] >= T}

\* apriori.py:96-97, 114-115: frequent_itemsets[itemset] = support_counts[itemset]
Record(fi, cf, sc) ==
    [itemset \in (DOMAIN fi) \cup cf |->
        IF itemset \in cf THEN sc[itemset] ELSE fi[itemset]]

\* The orders in which a set can be iterated
RECURSIVE Orders(_)
Orders(S) ==
    IF S = {} THEN {<<>>}
    ELSE UNION {{<<x>> \o s : s \in Orders(S \ {x})} : x \in S}

\* The iteration orders of the dict get_frequent_itemsets built: the keys of
\* level 1 first, then those of level 2, ..., each level in the order the
\* set current_frequent was iterated (apriori.py:96-97, 114-115)
RECURSIVE InsertionOrders(_, _)
InsertionOrders(keys, size) ==
    IF size = 0 THEN {<<>>}
    ELSE {s \o t : s \in InsertionOrders(keys, size - 1),
                   t \in Orders({x \in keys : Cardinality(x) = size})}

RECURSIVE While(_, _, _, _, _)
\* apriori.py:100-117, then the return of line 119
While(txs, T, cf, fi, kk) ==
    IF cf = {} THEN fi
    ELSE LET cands == generate_candidates(cf, kk)
         IN  IF cands = {} THEN fi
             ELSE LET sc == count_support(txs, cands)
                      kept == Keep(sc, T)
                  IN  While(txs, T, kept, Record(fi, kept, sc), kk + 1)

\* apriori.py:65-119 as one call
get_frequent_itemsets(txs, ms) ==
    LET T == MinSupportCount(txs, ms)
        sc == count_support(txs, SingleItemsets(AllItems(txs)))
        kept == Keep(sc, T)
    IN  While(txs, T, kept, Record(EmptyMap, kept, sc), 2)

(***************************************************************************)
(* closed_itemsets.py, maximal_itemsets.py.  `order` is the dict's keys in *)
(* iteration order, M its mapping.                                         *)
(***************************************************************************)

\* itemsets_by_size[size]: the keys of that size, in iteration order
BySize(order, size) ==
    SelectSeq(order, LAMBDA itemset : Cardinality(itemset) = size)

RECURSIVE SortedDesc(_)
SortedDesc(S) ==
    IF S = {} THEN <<>>
    ELSE LET m == CHOOSE x \in S : \A y \in S : y <= x
         IN  <<m>> \o SortedDesc(S \ {m})

\* sizes = sorted(itemsets_by_size.keys(), reverse=True)
Sizes(order) == SortedDesc({Cardinality(order[i]) : i \in DOMAIN order})

\* frozenset.__lt__: proper subset
ProperSubset(x, y) == x \subseteq y /\ x # y

RECURSIVE ClosedWitnessInAnySupport(_, _, _, _)
\* Mutant: any proper superset disqualifies, whatever its count
ClosedWitnessInAnySupport(others, j, itemset, M) ==
    IF j > Len(others) THEN FALSE
    ELSE IF ProperSubset(itemset, others[j]) THEN TRUE
         ELSE ClosedWitnessInAnySupport(others, j + 1, itemset, M)

RECURSIVE ClosedWitnessIn(_, _, _, _)
\* closed_itemsets.py:46-50: the scan of one size's list, from index j
ClosedWitnessIn(others, j, itemset, M) ==
    IF j > Len(others) THEN FALSE
    ELSE IF ProperSubset(itemset, others[j]) /\ M[others[j]] = M[itemset]
         THEN TRUE
         ELSE ClosedWitnessIn(others, j + 1, itemset, M)

RECURSIVE ClosedWitness(_, _, _, _, _)
\* closed_itemsets.py:42-53: the scan of the larger sizes, from index i
ClosedWitness(order, sizes, i, itemset, M) ==
    IF i > Len(sizes) THEN FALSE
    ELSE IF sizes[i] <= Cardinality(itemset) THEN FALSE
    ELSE IF ClosedWitnessIn(BySize(order, sizes[i]), 1, itemset, M) THEN TRUE
    ELSE ClosedWitness(order, sizes, i + 1, itemset, M)

RECURSIVE ClosedKeysFrom(_, _, _, _)
\* closed_itemsets.py:37-56: the keys kept, from the i-th size on
ClosedKeysFrom(order, sizes, i, M) ==
    IF i > Len(sizes) THEN <<>>
    ELSE SelectSeq(BySize(order, sizes[i]),
                   LAMBDA itemset : ~ClosedWitness(order, sizes, 1, itemset, M))
         \o ClosedKeysFrom(order, sizes, i + 1, M)

\* Mutant: the keys of the largest size are skipped
find_closed_itemsets_skip_largest(order, M) ==
    IF order = <<>> THEN EmptyMap
    ELSE LET kept == ClosedKeysFrom(order, Sizes(order), 2, M)
         IN  [itemset \in Range(kept) |-> M[itemset]]

\* closed_itemsets.py:11-58
find_closed_itemsets(order, M) ==
    IF order = <<>> THEN EmptyMap
    ELSE LET kept == ClosedKeysFrom(order, Sizes(order), 1, M)
         IN  [itemset \in Range(kept) |-> M[itemset]]

RECURSIVE MaximalWitnessIn(_, _, _)
\* maximal_itemsets.py:47-50
MaximalWitnessIn(others, j, itemset) ==
    IF j > Len(others) THEN FALSE
    ELSE IF ProperSubset(itemset, others[j]) THEN TRUE
         ELSE MaximalWitnessIn(others, j + 1, itemset)

RECURSIVE MaximalWitnessNextSizeOnly(_, _, _, _)
\* Mutant: only the itemsets one item larger are searched
MaximalWitnessNextSizeOnly(order, sizes, i, itemset) ==
    IF i > Len(sizes) THEN FALSE
    ELSE IF sizes[i] <= Cardinality(itemset) THEN FALSE
    ELSE IF /\ sizes[i] = Cardinality(itemset) + 1
            /\ MaximalWitnessIn(BySize(order, sizes[i]), 1, itemset) THEN TRUE
    ELSE MaximalWitnessNextSizeOnly(order, sizes, i + 1, itemset)

RECURSIVE MaximalWitness(_, _, _, _)
\* maximal_itemsets.py:43-53
MaximalWitness(order, sizes, i, itemset) ==
    IF i > Len(sizes) THEN FALSE
    ELSE IF sizes[i] <= Cardinality(itemset) THEN FALSE
    ELSE IF MaximalWitnessIn(BySize(order, sizes[i]), 1, itemset) THEN TRUE
    ELSE MaximalWitness(order, sizes, i + 1, itemset)

RECURSIVE MaximalFrom(_, _, _)
\* maximal_itemsets.py:38-56
MaximalFrom(order, sizes, i) ==
    IF i > Len(sizes) THEN <<>>
    ELSE SelectSeq(BySize(order, sizes[i]),
                   LAMBDA itemset : ~MaximalWitness(order, sizes, 1, itemset))
         \o MaximalFrom(order, sizes, i + 1)

\* maximal_itemsets.py:11-58; the function reads only the keys of its argument
find_maximal_itemsets(order) ==
    IF order = <<>> THEN <<>>
    ELSE MaximalFrom(order, Sizes(order), 1)

(***************************************************************************)
(* Spec: one run of get_frequent_itemsets, level by level, followed by the *)
(* two reductions main applies to its result.                              *)
(***************************************************************************)
Init ==
    /\ transactions \in TransactionLists
    /\ min_support \in MinSupports
    /\ pc = "INIT"
    /\ min_support_count = 0
    /\ support_counts = EmptyMap
    /\ current_frequent = {}
    /\ frequent_itemsets = EmptyMap
    /\ k = 1
    /\ candidates = {}
    /\ iter_order = <<>>
    /\ closed_itemsets = EmptyMap
    /\ maximal_itemsets = <<>>
    /\ min_support_2 = min_support
    /\ frequent_itemsets_2 = EmptyMap

\* apriori.py:78-99: level 1
FirstLevel ==
    /\ pc = "INIT"
    /\ LET T == MinSupportCount(transactions, min_support)
           sc == count_support(transactions, SingleItemsets(AllItems(transactions)))
           kept == Keep(sc, T)
       IN  /\ min_support_count' = T
           /\ support_counts' = sc
           /\ current_frequent' = kept
           /\ frequent_itemsets' = Record(frequent_itemsets, kept, sc)
    /\ k' = 2
    /\ pc' = "WHILE"
    /\ UNCHANGED <<transactions, min_support, candidates, iter_order, closed_itemsets,
                   maximal_itemsets, min_support_2, frequent_itemsets_2>>

\* apriori.py:100-117: one iteration of the while loop that runs level k
NextLevel ==
    /\ pc = "WHILE"
    /\ current_frequent # {}
    /\ LET cands == generate_candidates(current_frequent, k)
           sc == count_support(transactions, cands)
           kept == Keep(sc, min_support_count)
       IN  /\ cands # {}
           /\ candidates' = cands
           /\ support_counts' = sc
           /\ current_frequent' = kept
           /\ frequent_itemsets' = Record(frequent_itemsets, kept, sc)
    /\ k' = k + 1
    /\ UNCHANGED <<transactions, min_support, pc, min_support_count, iter_order,
                   closed_itemsets, maximal_itemsets, min_support_2,
                   frequent_itemsets_2>>

\* apriori.py:119
Return ==
    /\ pc' = "DONE"
    /\ UNCHANGED <<transactions, min_support, min_support_count, support_counts,
                   current_frequent, frequent_itemsets, k, iter_order,
                   closed_itemsets, maximal_itemsets, min_support_2,
                   frequent_itemsets_2>>

\* apriori.py:100: the loop condition fails, the kept set of the level is empty
LoopExit ==
    /\ pc = "WHILE"
    /\ current_frequent = {}
    /\ UNCHANGED candidates
    /\ Return

\* Mutant: continue instead of break
BreakContinues ==
    /\ pc = "WHILE"
    /\ current_frequent # {}
    /\ generate_candidates(current_frequent, k) = {}
    /\ UNCHANGED vars

\* apriori.py:101-104: no candidate of size k, break
Break ==
    /\ pc = "WHILE"
    /\ current_frequent # {}
    /\ generate_candidates(current_frequent, k) = {}
    /\ candidates' = {}
    /\ Return

\* main.py:88: main holds the returned dict, whose iteration order is the
\* order its keys were inserted in
Mine ==
    /\ pc = "DONE"
    /\ iter_order' \in InsertionOrders(DOMAIN frequent_itemsets, Cardinality(Items))
    /\ pc' = "MINED"
    /\ UNCHANGED <<transactions, min_support, min_support_count, support_counts,
                   current_frequent, frequent_itemsets, k, candidates,
                   closed_itemsets, maximal_itemsets, min_support_2,
                   frequent_itemsets_2>>

\* main.py:92: find_closed_itemsets(frequent_itemsets)
FindClosed ==
    /\ pc = "MINED"
    /\ closed_itemsets' = find_closed_itemsets(iter_order, frequent_itemsets)
    /\ pc' = "CLOSED"
    /\ UNCHANGED <<transactions, min_support, min_support_count, support_counts,
                   current_frequent, frequent_itemsets, k, candidates, iter_order,
                   maximal_itemsets, min_support_2, frequent_itemsets_2>>

\* main.py:96: find_maximal_itemsets(frequent_itemsets)
FindMaximal ==
    /\ pc = "CLOSED"
    /\ maximal_itemsets' = find_maximal_itemsets(iter_order)
    /\ pc' = "MAXIMAL"
    /\ UNCHANGED <<transactions, min_support, min_support_count, support_counts,
                   current_frequent, frequent_itemsets, k, candidates, iter_order,
                   closed_itemsets, min_support_2, frequent_itemsets_2>>

\* get_frequent_itemsets alone
NextEngine == FirstLevel \/ NextLevel \/ LoopExit \/ Break

Next == NextEngine \/ Mine \/ FindClosed \/ FindMaximal

Spec == Init /\ [][Next]_vars

\* get_frequent_itemsets alone.  The code is sequential and runs to completion:
\* a step that can be taken is taken
FairSpec == Init /\ [][NextEngine]_vars /\ WF_vars(NextEngine)

(***************************************************************************)
(* SpecReduce: the two reductions applied to an arbitrary map M (here      *)
(* frequent_itemsets, its keys in iteration order in iter_order).          *)
(***************************************************************************)
RECURSIVE DistinctSeqs(_, _)
DistinctSeqs(S, n) ==
    IF n = 0 THEN {<<>>}
    ELSE LET shorter == DistinctSeqs(S, n - 1)
         IN  shorter \cup
             UNION {{Append(s, x) : x \in S \ Range(s)} :
                        s \in {t \in shorter : Len(t) = n - 1}}

InitReduce ==
    /\ iter_order \in DistinctSeqs(NonEmptyItemsets, MaxKeys)
    /\ frequent_itemsets \in [Range(iter_order) -> Counts]
    /\ pc = "MINED"
    /\ transactions = <<>>
    /\ min_support = <<1, 1>>
    /\ min_support_count = 0
    /\ support_counts = EmptyMap
    /\ current_frequent = {}
    /\ k = 1
    /\ candidates = {}
    /\ closed_itemsets = EmptyMap
    /\ maximal_itemsets = <<>>
    /\ min_support_2 = min_support
    /\ frequent_itemsets_2 = EmptyMap

NextReduce == FindClosed \/ FindMaximal

SpecReduce == InitReduce /\ [][NextReduce]_vars

(***************************************************************************)
(* SpecGen: generate_candidates applied to an arbitrary set of itemsets    *)
(* of size k - 1 (here current_frequent), k >= 2.                          *)
(***************************************************************************)
InitGen ==
    /\ k \in 2..(Cardinality(GenItems) + 1)
    /\ current_frequent \in SUBSET {x \in SUBSET GenItems : Cardinality(x) = k - 1}
    /\ pc = "GEN"
    /\ candidates = {}
    /\ transactions = <<>>
    /\ min_support = <<1, 1>>
    /\ min_support_count = 0
    /\ support_counts = EmptyMap
    /\ frequent_itemsets = EmptyMap
    /\ iter_order = <<>>
    /\ closed_itemsets = EmptyMap
    /\ maximal_itemsets = <<>>
    /\ min_support_2 = min_support
    /\ frequent_itemsets_2 = EmptyMap

\* apriori.py:32-62 as one call
Generate ==
    /\ pc = "GEN"
    /\ candidates' = generate_candidates(current_frequent, k)
    /\ pc' = "GENERATED"
    /\ UNCHANGED <<transactions, min_support, min_support_count, support_counts,
                   current_frequent, frequent_itemsets, k, iter_order,
                   closed_itemsets, maximal_itemsets, min_support_2,
                   frequent_itemsets_2>>

SpecGen == InitGen /\ [][Generate]_vars

(***************************************************************************)
(* SpecMono: two runs of get_frequent_itemsets on the same transactions,   *)
(* the first with min_support, the second with a larger min_support_2.     *)
(***************************************************************************)
InitMono ==
    /\ transactions \in TransactionLists
    /\ min_support \in MinSupports
    /\ min_support_2 \in {ms \in MinSupports : Less(min_support, ms)}
    /\ pc = "RUN1"
    /\ frequent_itemsets = EmptyMap
    /\ frequent_itemsets_2 = EmptyMap
    /\ min_support_count = 0
    /\ support_counts = EmptyMap
    /\ current_frequent = {}
    /\ k = 1
    /\ candidates = {}
    /\ iter_order = <<>>
    /\ closed_itemsets = EmptyMap
    /\ maximal_itemsets = <<>>

\* get_frequent_itemsets(transactions, min_support)
Run1 ==
    /\ pc = "RUN1"
    /\ frequent_itemsets' = get_frequent_itemsets(transactions, min_support)
    /\ pc' = "RUN2"
    /\ UNCHANGED <<transactions, min_support, min_support_count, support_counts,
                   current_frequent, k, candidates, iter_order, closed_itemsets,
                   maximal_itemsets, min_support_2, frequent_itemsets_2>>

\* get_frequent_itemsets(transactions, min_support_2)
Run2 ==
    /\ pc = "RUN2"
    /\ frequent_itemsets_2' = get_frequent_itemsets(transactions, min_support_2)
    /\ pc' = "RAN"
    /\ UNCHANGED <<transactions, min_support, min_support_count, support_counts,
                   current_frequent, frequent_itemsets, k, candidates, iter_order,
                   closed_itemsets, maximal_itemsets, min_support_2>>

NextMono == Run1 \/ Run2

SpecMono == InitMono /\ [][NextMono]_vars

(***************************************************************************)
(* Properties.                                                             *)
(***************************************************************************)

\* Direct recount: the number of transactions that are supersets of X
Support(X) == Cardinality({i \in DOMAIN transactions : X \subseteq transactions[i]})

\* floor(min_support * number of transactions)
FloorThreshold == (min_support[1] * Len(transactions)) \div min_support[2]

Returned == pc \in {"DONE", "MINED", "CLOSED", "MAXIMAL"}

NoProperSuperset(X, keys) == ~\E Y \in keys : X \subseteq Y /\ X # Y

Max(a, b) == IF a >= b THEN a ELSE b

\* C1: the key set of the returned map is exactly the set of non-empty itemsets
\* over the occurring items whose support count is >= floor(min_support * n);
\* none is missing, none with a smaller count is present, a count equal to the
\* threshold is included.
C1_ExactFrequentSet ==
    Returned =>
        DOMAIN frequent_itemsets =
            {X \in (SUBSET AllItems(transactions)) \ {{}} : Support(X) >= FloorThreshold}

\* A returned map with a pair kept at exactly the threshold, and a pair that was
\* pruned (one of its items is infrequent) and so never counted
C1_Witness ==
    /\ pc = "DONE"
    /\ FloorThreshold >= 1
    /\ \E X \in DOMAIN frequent_itemsets :
           Cardinality(X) = 2 /\ frequent_itemsets[X] = FloorThreshold
    /\ \E Y \in SUBSET AllItems(transactions) :
           /\ Cardinality(Y) = 2
           /\ Y \notin DOMAIN frequent_itemsets
           /\ \E item \in Y : {item} \notin DOMAIN frequent_itemsets

\* C2: every recorded count equals the direct recount over the transaction list
\* (repeated transactions counted separately); count_support returns exactly
\* this number for each candidate, and 0 for every candidate on an empty list.
C2_SupportCorrect ==
    /\ \A X \in DOMAIN frequent_itemsets : frequent_itemsets[X] = Support(X)
    /\ \A c \in DOMAIN support_counts : support_counts[c] = Support(c)
    /\ \A c \in NonEmptyItemsets :
           /\ DOMAIN count_support(transactions, {c}) = {c}
           /\ count_support(transactions, {c})[c] = Support(c)
    /\ transactions = <<>> =>
           \A C \in SUBSET NonEmptyItemsets :
               count_support(transactions, C) = [c \in C |-> 0]

\* A returned map with a pair of items counted in two identical transactions
C2_Witness ==
    /\ pc = "DONE"
    /\ \E i, j \in DOMAIN transactions : i < j /\ transactions[i] = transactions[j]
           /\ \E X \in DOMAIN frequent_itemsets :
                  /\ Cardinality(X) = 2
                  /\ X \subseteq transactions[i]
                  /\ frequent_itemsets[X] = Len(transactions)

\* C3: in every state of the run (so after every completed level, and in the
\* returned map) every non-empty proper subset of a key is a key.
C3_DownwardClosure ==
    \A X \in DOMAIN frequent_itemsets :
        \A Y \in SUBSET X : Y # {} => Y \in DOMAIN frequent_itemsets

\* Level 2 is completed with a pair kept, and the run is not over
C3_Witness ==
    /\ pc = "WHILE"
    /\ k = 3
    /\ \E X \in DOMAIN frequent_itemsets : Cardinality(X) = 2
    /\ \E item \in AllItems(transactions) : {item} \notin DOMAIN frequent_itemsets

\* C4: find_closed_itemsets(M) is M restricted to the keys with no proper
\* superset key of equal count; counts unchanged; empty M gives an empty map.
C4_ClosedExact ==
    pc \in {"CLOSED", "MAXIMAL"} =>
        closed_itemsets =
            [X \in {Z \in DOMAIN frequent_itemsets :
                       ~\E Y \in DOMAIN frequent_itemsets :
                            /\ Z \subseteq Y
                            /\ Z # Y
                            /\ frequent_itemsets[Y] = frequent_itemsets[Z]}
                |-> frequent_itemsets[X]]

\* A key dropped with witnesses of two sizes, and a key kept although it has a
\* proper superset (of another count)
C4_Witness ==
    /\ pc = "CLOSED"
    /\ \E X \in DOMAIN frequent_itemsets :
           /\ X \notin DOMAIN closed_itemsets
           /\ \E Y1, Y2 \in DOMAIN frequent_itemsets :
                  /\ Cardinality(Y1) < Cardinality(Y2)
                  /\ X \subseteq Y1 /\ X # Y1 /\ X \subseteq Y2
                  /\ frequent_itemsets[Y1] = frequent_itemsets[X]
                  /\ frequent_itemsets[Y2] = frequent_itemsets[X]
    /\ \E X \in DOMAIN closed_itemsets :
           \E Y \in DOMAIN frequent_itemsets : X \subseteq Y /\ X # Y

\* C5: find_maximal_itemsets(M) holds, each once, exactly the keys of M with no
\* proper superset key; every key of the largest size is returned; empty M
\* gives an empty list.
C5_MaximalExact ==
    pc = "MAXIMAL" =>
        /\ Range(maximal_itemsets) =
               {X \in DOMAIN frequent_itemsets :
                    NoProperSuperset(X, DOMAIN frequent_itemsets)}
        /\ \A i, j \in DOMAIN maximal_itemsets :
               maximal_itemsets[i] = maximal_itemsets[j] => i = j
        /\ \A X \in DOMAIN frequent_itemsets :
               (\A Y \in DOMAIN frequent_itemsets : Cardinality(Y) <= Cardinality(X))
                   => X \in Range(maximal_itemsets)
        /\ frequent_itemsets = EmptyMap => maximal_itemsets = <<>>

\* A key is left out, and a key smaller than the largest size is returned
C5_Witness ==
    /\ pc = "MAXIMAL"
    /\ \E X \in DOMAIN frequent_itemsets : X \notin Range(maximal_itemsets)
    /\ \E X \in Range(maximal_itemsets) :
           \E Y \in DOMAIN frequent_itemsets : Cardinality(Y) > Cardinality(X)

\* C6: for the same M, every maximal itemset is a key of the closed map and
\* every key of the closed map is a key of M: |maximal| <= |closed| <= |M|.
C6_MaximalClosedFrequent ==
    pc = "MAXIMAL" =>
        /\ Range(maximal_itemsets) \subseteq DOMAIN closed_itemsets
        /\ DOMAIN closed_itemsets \subseteq DOMAIN frequent_itemsets
        /\ Len(maximal_itemsets) <= Cardinality(DOMAIN closed_itemsets)
        /\ Cardinality(DOMAIN closed_itemsets) <= Cardinality(DOMAIN frequent_itemsets)

\* Both inclusions are strict
C6_Witness ==
    /\ pc = "MAXIMAL"
    /\ Len(maximal_itemsets) >= 1
    /\ Len(maximal_itemsets) < Cardinality(DOMAIN closed_itemsets)
    /\ Cardinality(DOMAIN closed_itemsets) < Cardinality(DOMAIN frequent_itemsets)

\* C7: with min_support < min_support_2 on the same transactions the threshold
\* counts are ordered, every key of the second run's map is a key of the first
\* run's, and the counts agree on the shared keys.
C7_MonotonicThreshold ==
    pc = "RAN" =>
        /\ MinSupportCount(transactions, min_support)
               <= MinSupportCount(transactions, min_support_2)
        /\ DOMAIN frequent_itemsets_2 \subseteq DOMAIN frequent_itemsets
        /\ \A X \in (DOMAIN frequent_itemsets_2) \cap (DOMAIN frequent_itemsets) :
               frequent_itemsets_2[X] = frequent_itemsets[X]

\* The second run keeps some but not all of the first run's keys
C7_Witness ==
    /\ pc = "RAN"
    /\ frequent_itemsets_2 # EmptyMap
    /\ DOMAIN frequent_itemsets_2 # DOMAIN frequent_itemsets
    /\ \E X \in DOMAIN frequent_itemsets_2 : Cardinality(X) = 2

C9_CandidatesExact ==
    pc = "GENERATED" =>
        /\ candidates =
               {X \in SUBSET GenItems :
                    /\ Cardinality(X) = k
                    /\ \A item \in X : (X \ {item}) \in current_frequent}
        /\ Cardinality(current_frequent) < 2 => candidates = {}

\* A candidate is produced, and a join of size k is rejected because one of its
\* subsets is not in F
C9_Witness ==
    /\ pc = "GENERATED"
    /\ k = 3
    /\ candidates # {}
    /\ \E x, y \in current_frequent :
           /\ Cardinality(x \cup y) = k
           /\ (x \cup y) \notin candidates

\* The loop stops at this point: the kept set is empty or no candidate is generated
StopCondition ==
    current_frequent = {} \/ generate_candidates(current_frequent, k) = {}

====
